---------------------------- MODULE Spec2Model ----------------------------
(***************************************************************************)
(* EV3UartGenerator: the framing functions of framing.cpp as operators on  *)
(* a byte-addressed destination buffer, and a caller that hands each       *)
(* framing function a buffer and reads back the return value.              *)
(*                                                                         *)
(* Memory is a function from addresses 0..MemSize-1 to bytes; a uint8_t*   *)
(* is an address.  Every framing function is an operator                   *)
(*     f(mem, dest, args) = [mem |-> memory after the call, ret |-> int8]  *)
(* built from the same stores, in the same order, as the C++ code.         *)
(***************************************************************************)
EXTENDS Integers, Sequences, FiniteSets, TLC

(***************************************************************************)
(* Bounds of the model.                                                    *)
(***************************************************************************)
\* highest offset inside the caller's buffer at which a message is framed
MaxDest == 0
\* bytes of the caller's buffer that lie behind dest + BUFFER_MIN
Guard == 2
\* payload lengths 0..MaxLen are tried for WRITE and DATA messages
MaxLen == 34
\* strings of 0..MaxNameLen characters are tried as mode names
MaxNameLen == 34
\* strings of 0..MaxSymbolLen characters are tried as symbols
MaxSymbolLen == 10

(***************************************************************************)
(* magics.hpp and the limits of framing.hpp                                *)
(***************************************************************************)
SYS_BASE == 0
CMD_BASE == 64
TYPE == 0
MODES == 1
SPEED == 2
SELECT == 3
WRITE == 4
INFO_BASE == 128
DATA_BASE == 192

BUFFER_MIN == 35
PAYLOAD_SENSOR_TO_EV3_MAX == 32
PAYLOAD_EV3_TO_SENSOR_MAX == 24
PAYLOAD_MIN == 1
SYMBOL_MAX == 8

Byte == 0..255

(***************************************************************************)
(* Integer conversions and the bitwise operators of C++ on unsigned values *)
(***************************************************************************)
\* conversion to uint8_t
ToUint8(x) == x % 256

\* conversion to int8_t (the return type of every framing function)
ToInt8(x) == ((x + 128) % 256) - 128

RECURSIVE BitAnd(_, _)
BitAnd(a, b) ==
    IF a = 0 \/ b = 0 THEN 0
    ELSE (IF a % 2 = 1 /\ b % 2 = 1 THEN 1 ELSE 0) + 2 * BitAnd(a \div 2, b \div 2)

RECURSIVE BitOr(_, _)
BitOr(a, b) ==
    IF a = 0 THEN b
    ELSE IF b = 0 THEN a
    ELSE (IF a % 2 = 1 \/ b % 2 = 1 THEN 1 ELSE 0) + 2 * BitOr(a \div 2, b \div 2)

RECURSIVE BitXor(_, _)
BitXor(a, b) ==
    IF a = 0 THEN b
    ELSE IF b = 0 THEN a
    ELSE (IF a % 2 /= b % 2 THEN 1 ELSE 0) + 2 * BitXor(a \div 2, b \div 2)

\* x << n on an int
ShiftLeft(x, n) == x * (2 ^ n)

(***************************************************************************)
(* log2 and length_code (framing.hpp)                                      *)
(***************************************************************************)
\* number of bits of val up to its highest set bit
RECURSIVE bit_width(_)
bit_width(val) == IF val = 0 THEN 0 ELSE 1 + bit_width(val \div 2)

\* number of leading zero bits of a non-zero 32-bit value; the builtin is
\* undefined for 0 and no framing function passes 0
builtin_clz(val) == 32 - bit_width(val)

\* a faulty variant of log2: the result is not rounded up
log2_Floor(val) == ToUint8(31 - builtin_clz(val))

log2(val) ==
    ToUint8((31 - builtin_clz(val))
            + (IF val - ShiftLeft(1, 31 - builtin_clz(val)) /= 0 THEN 1 ELSE 0))

\* a faulty variant of length_code: the code is not shifted to bits 5..3
length_code_NoShift(len) == ToUint8(log2(len))

length_code(len) == ToUint8(ShiftLeft(log2(len), 3))

(***************************************************************************)
(* Memory                                                                  *)
(***************************************************************************)
MemSize == MaxDest + BUFFER_MIN + Guard

Addr == 0..(MemSize - 1)

\* *(p) = b
Store(mem, p, b) == [mem EXCEPT ![p] = b]

\* memcpy(p, src, n), src a sequence of at least n bytes
memcpy(mem, p, src, n) ==
    [a \in DOMAIN mem |-> IF a >= p /\ a < p + n THEN src[a - p + 1] ELSE mem[a]]

(***************************************************************************)
(* checksum and insert_padding (framing.cpp)                               *)
(***************************************************************************)
\* the loop of checksum from index i with accumulator acc
RECURSIVE checksum_loop(_, _, _, _, _)
checksum_loop(mem, buf, len, i, acc) ==
    IF i < len THEN checksum_loop(mem, buf, len, ToUint8(i + 1), BitXor(acc, mem[buf + i]))
    ELSE acc

\* a faulty variant of checksum: the accumulator starts at 0x00
checksum_ZeroSeed(mem, buf, len) == checksum_loop(mem, buf, len, 0, 0)

\* a faulty variant of checksum: the loop runs one byte too far, over the
\* byte the checksum is about to be stored in
checksum_ReadsOneMore(mem, buf, len) == checksum_loop(mem, buf, ToUint8(len + 1), 0, 255)

\* a faulty variant of checksum: the tag byte is left out
checksum_SkipsFirst(mem, buf, len) == checksum_loop(mem, buf, len, 1, 255)

checksum(mem, buf, len) == checksum_loop(mem, buf, len, 0, 255)

\* a faulty variant of zero_loop: the loop runs while i <= padding
RECURSIVE zero_loop_OneMore(_, _, _, _)
zero_loop_OneMore(mem, dest, padding, i) ==
    IF i <= padding
    THEN zero_loop_OneMore(Store(mem, dest, 0), dest + 1, padding, i + 1)
    ELSE mem

\* the loop of insert_padding and of frame_info_message_symbol: *(dest++) = 0x00
RECURSIVE zero_loop(_, _, _, _)
zero_loop(mem, dest, padding, i) ==
    IF i < padding THEN zero_loop(Store(mem, dest, 0), dest + 1, padding, ToUint8(i + 1))
    ELSE mem

\* a faulty variant of padding_size: the payload is rounded up to the power
\* of two above ceil(log2 len)
padding_size_NextPower(len) == ToUint8(ShiftLeft(1, log2(len) + 1) - len)

padding_size(len) == ToUint8(ShiftLeft(1, log2(len)) - len)

\* a faulty variant of insert_padding: the padding is counted but never stored
insert_padding_NoStore(mem, dest, len) == [mem |-> mem, ret |-> padding_size(len)]

insert_padding(mem, dest, len) ==
    LET padding == padding_size(len)
    IN  [mem |-> zero_loop(mem, dest, padding, 0), ret |-> padding]

(***************************************************************************)
(* simple_endian.hpp: the byte order is fixed by the build (__BYTE_ORDER__) *)
(***************************************************************************)
ByteOrders == {"little", "big", "pdp"}

\* A uint32_t value x is kept as its two 16-bit halves,
\* [hi |-> x >> 16, lo |-> x & 0xffff].
Word(b3, b2, b1, b0) == [hi |-> b3 * 256 + b2, lo |-> b1 * 256 + b0]

\* the byte swap of a 16-bit value
bswap16(h) == (h % 256) * 256 + (h \div 256)

\* __builtin_bswap32
bswap32(x) == [hi |-> bswap16(x.lo), lo |-> bswap16(x.hi)]

\* a faulty variant of htole32: the value is returned as it is on every host
htole32_NoConversion(order, host_32bits) == host_32bits

htole32(order, host_32bits) ==
    IF order = "little" THEN host_32bits
    ELSE IF order = "big" THEN bswap32(host_32bits)
    ELSE \* ((x & 0xffff0000) >> 0x10) | ((x & 0x0000ffff) << 0x10)
         [hi |-> BitAnd(host_32bits.lo, 65535), lo |-> BitAnd(host_32bits.hi, 65535)]

\* the four bytes of a uint32_t object in the memory of the host, lowest
\* address first: what memcpy from the address of the object reads
object_bytes(order, x) ==
    LET b0 == x.lo % 256
        b1 == x.lo \div 256
        b2 == x.hi % 256
        b3 == x.hi \div 256
    IN  IF order = "little" THEN <<b0, b1, b2, b3>>
        ELSE IF order = "big" THEN <<b3, b2, b1, b0>>
        ELSE <<b2, b3, b0, b1>>

(***************************************************************************)
(* string.h: a const char* is either nullptr or a sequence of bytes that   *)
(* holds a terminating 0                                                   *)
(***************************************************************************)
nullptr == <<>>

RECURSIVE strlen_from(_, _)
strlen_from(s, i) == IF s[i] = 0 THEN i - 1 ELSE strlen_from(s, i + 1)

\* a faulty variant of strlen: the terminator is counted
strlen_CountsTerminator(s) == strlen_from(s, 1) + 1

strlen(s) == strlen_from(s, 1)

(***************************************************************************)
(* The framing functions (framing.cpp)                                     *)
(***************************************************************************)
\* a faulty variant of frame_sys_message: a value that is no enumerator is rejected
frame_sys_message_RejectsUnknown(mem, dest, sys_type) ==
    IF sys_type \notin {0, 2, 4, 6} THEN [mem |-> mem, ret |-> ToInt8(-1)]
    ELSE [mem |-> Store(mem, dest, BitOr(sys_type, SYS_BASE)), ret |-> ToInt8(1)]

frame_sys_message(mem, dest, sys_type) ==
    [mem |-> Store(mem, dest, BitOr(sys_type, SYS_BASE)), ret |-> ToInt8(1)]

\* a faulty variant of frame_cmd_type_message: dest is advanced once more before the
\* checksum is stored
frame_cmd_type_message_ChecksumOneTooFar(mem, dest, type) ==
    LET orig_dest == dest
        m1 == Store(mem, dest, BitOr(BitOr(CMD_BASE, TYPE), length_code(1)))
        m2 == Store(m1, dest + 1, type)
        m3 == Store(m2, dest + 3, checksum(m2, orig_dest, 2))
    IN  [mem |-> m3, ret |-> ToInt8(3)]

frame_cmd_type_message(mem, dest, type) ==
    LET orig_dest == dest
        m1 == Store(mem, dest, BitOr(BitOr(CMD_BASE, TYPE), length_code(1)))
        m2 == Store(m1, dest + 1, type)
        m3 == Store(m2, dest + 2, checksum(m2, orig_dest, 2))
    IN  [mem |-> m3, ret |-> ToInt8(3)]

\* a faulty variant of frame_cmd_modes_message: the second field is stored
\* without the mask
frame_cmd_modes_message_SecondUnmasked(mem, dest, modes, modes_available) ==
    LET orig_dest == dest
        m1 == Store(mem, dest, BitOr(BitOr(CMD_BASE, MODES), length_code(2)))
        m2 == Store(m1, dest + 1, BitAnd(7, modes))
        m3 == Store(m2, dest + 2, modes_available)
        m4 == Store(m3, dest + 3, checksum(m3, orig_dest, 3))
    IN  [mem |-> m4, ret |-> ToInt8(4)]

frame_cmd_modes_message(mem, dest, modes, modes_available) ==
    LET orig_dest == dest
        m1 == Store(mem, dest, BitOr(BitOr(CMD_BASE, MODES), length_code(2)))
        m2 == Store(m1, dest + 1, BitAnd(7, modes))
        m3 == Store(m2, dest + 2, BitAnd(7, modes_available))
        m4 == Store(m3, dest + 3, checksum(m3, orig_dest, 3))
    IN  [mem |-> m4, ret |-> ToInt8(4)]

frame_cmd_speed_message(order, mem, dest, speed) ==
    LET orig_dest == dest
        m1 == Store(mem, dest, BitOr(BitOr(CMD_BASE, SPEED), length_code(4)))
        speed_conv == htole32(order, speed)
        m2 == memcpy(m1, dest + 1, object_bytes(order, speed_conv), 4)
        d2 == dest + 1 + 4
        m3 == Store(m2, d2, checksum(m2, orig_dest, 5))
    IN  [mem |-> m3, ret |-> ToInt8(6)]

\* a faulty variant of frame_cmd_select_message: a mode above 7 is rejected
frame_cmd_select_message_RejectsMode(mem, dest, mode) ==
    IF mode > 7 THEN [mem |-> mem, ret |-> ToInt8(-1)]
    ELSE
        LET orig_dest == dest
            m1 == Store(mem, dest, BitOr(BitOr(CMD_BASE, SELECT), length_code(1)))
            m2 == Store(m1, dest + 1, BitAnd(7, mode))
            m3 == Store(m2, dest + 2, checksum(m2, orig_dest, 2))
        IN  [mem |-> m3, ret |-> ToInt8(3)]

\* a faulty variant of frame_cmd_select_message: the mode is stored without the mask
frame_cmd_select_message_NoMask(mem, dest, mode) ==
    LET orig_dest == dest
        m1 == Store(mem, dest, BitOr(BitOr(CMD_BASE, SELECT), length_code(1)))
        m2 == Store(m1, dest + 1, mode)
        m3 == Store(m2, dest + 2, checksum(m2, orig_dest, 2))
    IN  [mem |-> m3, ret |-> ToInt8(3)]

frame_cmd_select_message(mem, dest, mode) ==
    LET orig_dest == dest
        m1 == Store(mem, dest, BitOr(BitOr(CMD_BASE, SELECT), length_code(1)))
        m2 == Store(m1, dest + 1, BitAnd(7, mode))
        m3 == Store(m2, dest + 2, checksum(m2, orig_dest, 2))
    IN  [mem |-> m3, ret |-> ToInt8(3)]

\* a faulty variant of write_len_rejected: the limit is that of the other direction
write_len_rejected_SensorMax(len) ==
    (len < PAYLOAD_MIN) \/ (len > PAYLOAD_SENSOR_TO_EV3_MAX)

\* the test of frame_cmd_write_message
write_len_rejected(len) == (len < PAYLOAD_MIN) \/ (len > PAYLOAD_EV3_TO_SENSOR_MAX)

\* a faulty variant of frame_cmd_write_message: the tag byte is stored before the
\* length is tested
frame_cmd_write_message_StoresBeforeTest(mem, dest, data, len) ==
    LET orig_dest == dest
        m1 == Store(mem, dest, BitOr(BitOr(CMD_BASE, WRITE), 0))
    IN  IF write_len_rejected(len) THEN [mem |-> m1, ret |-> ToInt8(-1)]
        ELSE
            LET m2 == memcpy(Store(m1, dest,
                                   BitOr(BitOr(CMD_BASE, WRITE), length_code(len))),
                             dest + 1, data, len)
                d2 == dest + 1 + len
                pad == insert_padding(m2, d2, len)
                padding == pad.ret
                d3 == d2 + padding
                m4 == Store(pad.mem, d3,
                            checksum(pad.mem, orig_dest, ToUint8(1 + len + padding)))
            IN  [mem |-> m4, ret |-> ToInt8(2 + len + padding)]

frame_cmd_write_message(mem, dest, data, len) ==
    IF write_len_rejected(len) THEN [mem |-> mem, ret |-> ToInt8(-1)]
    ELSE
        LET orig_dest == dest
            m1 == Store(mem, dest, BitOr(BitOr(CMD_BASE, WRITE), length_code(len)))
            m2 == memcpy(m1, dest + 1, data, len)
            d2 == dest + 1 + len
            pad == insert_padding(m2, d2, len)
            padding == pad.ret
            d3 == d2 + padding
            m4 == Store(pad.mem, d3, checksum(pad.mem, orig_dest, ToUint8(1 + len + padding)))
        IN  [mem |-> m4, ret |-> ToInt8(2 + len + padding)]

\* the test of frame_info_message_name and of frame_data_message
sensor_len_rejected(len) == (len < PAYLOAD_MIN) \/ (len > PAYLOAD_SENSOR_TO_EV3_MAX)

frame_info_message_name(mem, dest, mode, name) ==
    LET name_length == IF name /= nullptr THEN strlen(name) ELSE 0
    IN  IF sensor_len_rejected(name_length) THEN [mem |-> mem, ret |-> ToInt8(-1)]
        ELSE
            LET orig_dest == dest
                m1 == Store(mem, dest,
                            BitOr(BitOr(INFO_BASE, BitAnd(7, mode)),
                                  length_code(ToUint8(name_length))))
                m2 == Store(m1, dest + 1, 0)
                m3 == memcpy(m2, dest + 2, name, name_length)
                d3 == dest + 2 + name_length
                pad == insert_padding(m3, d3, ToUint8(name_length))
                padding == pad.ret
                d4 == d3 + padding
                m5 == Store(pad.mem, d4,
                            checksum(pad.mem, orig_dest, ToUint8(2 + name_length + padding)))
            IN  [mem |-> m5, ret |-> ToInt8(3 + name_length + padding)]

frame_info_message_span(order, mem, dest, mode, span_type, lower, upper) ==
    LET orig_dest == dest
        m1 == Store(mem, dest,
                    BitOr(BitOr(INFO_BASE, BitAnd(7, mode)), length_code(4 + 4)))
        m2 == Store(m1, dest + 1, span_type)
        temp1 == htole32(order, lower)
        m3 == memcpy(m2, dest + 2, object_bytes(order, temp1), 4)
        temp2 == htole32(order, upper)
        m4 == memcpy(m3, dest + 6, object_bytes(order, temp2), 4)
        d4 == dest + 10
        m5 == Store(m4, d4, checksum(m4, orig_dest, 10))
    IN  [mem |-> m5, ret |-> ToInt8(11)]

\* the test of frame_info_message_symbol
symbol_len_rejected(len) == (len < PAYLOAD_MIN) \/ (len > SYMBOL_MAX)

\* a faulty variant of frame_info_message_symbol: the symbol is padded by
\* insert_padding, as a name is
frame_info_message_symbol_PowerOfTwoPadding(mem, dest, mode, symbol) ==
    LET symbol_length == IF symbol /= nullptr THEN strlen(symbol) ELSE 0
    IN  IF symbol_len_rejected(symbol_length) THEN [mem |-> mem, ret |-> ToInt8(-1)]
        ELSE
            LET orig_dest == dest
                m1 == Store(mem, dest,
                            BitOr(BitOr(INFO_BASE, BitAnd(7, mode)), length_code(8)))
                m2 == Store(m1, dest + 1, 4)
                m3 == memcpy(m2, dest + 2, symbol, symbol_length)
                d3 == dest + 2 + symbol_length
                pad == insert_padding(m3, d3, ToUint8(symbol_length))
                padding == pad.ret
                d4 == d3 + padding
                m5 == Store(pad.mem, d4,
                            checksum(pad.mem, orig_dest, ToUint8(2 + symbol_length + padding)))
            IN  [mem |-> m5, ret |-> ToInt8(3 + symbol_length + padding)]

frame_info_message_symbol(mem, dest, mode, symbol) ==
    LET symbol_length == IF symbol /= nullptr THEN strlen(symbol) ELSE 0
    IN  IF symbol_len_rejected(symbol_length) THEN [mem |-> mem, ret |-> ToInt8(-1)]
        ELSE
            LET orig_dest == dest
                m1 == Store(mem, dest,
                            BitOr(BitOr(INFO_BASE, BitAnd(7, mode)), length_code(8)))
                m2 == Store(m1, dest + 1, 4)
                m3 == memcpy(m2, dest + 2, symbol, symbol_length)
                d3 == dest + 2 + symbol_length
                padding == ToUint8(8 - symbol_length)
                m4 == zero_loop(m3, d3, padding, 0)
                d4 == d3 + padding
                m5 == Store(m4, d4,
                            checksum(m4, orig_dest, ToUint8(2 + symbol_length + padding)))
            IN  [mem |-> m5, ret |-> ToInt8(3 + symbol_length + padding)]

\* a faulty variant of frame_info_message_format: elems is masked to 5 bits
frame_info_message_format_ElemsMask(mem, dest, mode, elems, data_type, width, decimals) ==
    LET orig_dest == dest
        m1 == Store(mem, dest,
                    BitOr(BitOr(INFO_BASE, BitAnd(7, mode)), length_code(4)))
        m2 == Store(m1, dest + 1, 128)
        m3 == Store(m2, dest + 2, BitAnd(31, elems))
        m4 == Store(m3, dest + 3, BitAnd(3, data_type))
        m5 == Store(m4, dest + 4, BitAnd(15, width))
        m6 == Store(m5, dest + 5, BitAnd(15, decimals))
        m7 == Store(m6, dest + 6, checksum(m6, orig_dest, 2 + 4))
    IN  [mem |-> m7, ret |-> ToInt8(7)]

frame_info_message_format(mem, dest, mode, elems, data_type, width, decimals) ==
    LET orig_dest == dest
        m1 == Store(mem, dest,
                    BitOr(BitOr(INFO_BASE, BitAnd(7, mode)), length_code(4)))
        m2 == Store(m1, dest + 1, 128)
        m3 == Store(m2, dest + 2, BitAnd(63, elems))
        m4 == Store(m3, dest + 3, BitAnd(3, data_type))
        m5 == Store(m4, dest + 4, BitAnd(15, width))
        m6 == Store(m5, dest + 5, BitAnd(15, decimals))
        m7 == Store(m6, dest + 6, checksum(m6, orig_dest, 2 + 4))
    IN  [mem |-> m7, ret |-> ToInt8(7)]

\* a faulty variant of frame_data_message: the checksum follows the payload
\* at once, without padding
frame_data_message_NoPadding(mem, dest, mode, data, len) ==
    IF sensor_len_rejected(len) THEN [mem |-> mem, ret |-> ToInt8(-1)]
    ELSE
        LET m1 == Store(mem, dest,
                        BitOr(BitOr(DATA_BASE, BitAnd(7, mode)), length_code(len)))
            m2 == memcpy(m1, dest + 1, data, len)
            m3 == Store(m2, dest + 1 + len, checksum(m2, dest, ToUint8(1 + len)))
        IN  [mem |-> m3, ret |-> ToInt8(2 + len)]

frame_data_message(mem, dest, mode, data, len) ==
    IF sensor_len_rejected(len) THEN [mem |-> mem, ret |-> ToInt8(-1)]
    ELSE
        LET orig_dest == dest
            m1 == Store(mem, dest,
                        BitOr(BitOr(DATA_BASE, BitAnd(7, mode)), length_code(len)))
            m2 == memcpy(m1, dest + 1, data, len)
            d2 == dest + 1 + len
            pad == insert_padding(m2, d2, len)
            padding == pad.ret
            d3 == d2 + padding
            m4 == Store(pad.mem, d3, checksum(pad.mem, orig_dest, ToUint8(1 + len + padding)))
        IN  [mem |-> m4, ret |-> ToInt8(2 + len + padding)]

(***************************************************************************)
(* The caller: every call is made on a buffer the caller has prepared, and *)
(* `pre` keeps the buffer as it was when the call was made.                *)
(***************************************************************************)
VARIABLES
    byte_order,     \* __BYTE_ORDER__ of the build
    mem,            \* the caller's buffer
    pre,            \* the caller's buffer when the last call was made
    call,           \* the last call: the framing function and its arguments
    ret,            \* the value the last call returned
    frames          \* the calls in progress on other threads, statement by statement

vars == <<byte_order, mem, pre, call, ret, frames>>

\* offsets of dest inside the caller's buffer
Dests == 0..MaxDest

\* what the caller's buffer is filled with before a call (the tests fill
\* with 0xff, the example with 0)
Fills == {0, 255}

InitialBuffers == {[a \in Addr |-> f] : f \in Fills}

\* values of a mode argument tried together with every payload
ModeSamples == {0, 1, 5, 7, 8, 9, 85, 128, 248, 255}

\* uint8_t payload[len], filled as the tests fill it (iota from 0) or with
\* one repeated byte
Patterns == {"iota", "zero", "ff"}

Payload(pat, len) ==
    [i \in 1..len |-> IF pat = "iota" THEN (i - 1) % 256
                      ELSE IF pat = "zero" THEN 0 ELSE 255]

Lens == (0..MaxLen) \cup {128, 255}

\* char payload[sz + 1], filled as the tests fill it (iota from a first
\* character) and terminated by '\0'
CString(first, sz) == [i \in 1..(sz + 1) |-> IF i <= sz THEN first + i - 1 ELSE 0]

FirstChars == {65, 97}

Names == {nullptr} \cup {CString(c, sz) : c \in FirstChars, sz \in 0..MaxNameLen}

Symbols == {nullptr} \cup {CString(c, sz) : c \in FirstChars, sz \in 0..MaxSymbolLen}

\* "COL-CAL" and "col" of the example
ColCal == <<67, 79, 76, 45, 67, 65, 76, 0>>
Col == <<99, 111, 108, 0>>

\* baud rates 0, 2400, 57600, 115200, and 0x01020304, 0x80000000, 0xffffffff
Speeds ==
    {Word(0, 0, 0, 0), Word(0, 0, 9, 96), Word(0, 0, 225, 0), Word(0, 1, 194, 0),
     Word(1, 2, 3, 4), Word(128, 0, 0, 0), Word(255, 255, 255, 255)}
    \cup {Word(v, 2, 3, 4) : v \in Byte} \cup {Word(1, v, 3, 4) : v \in Byte}
    \cup {Word(1, 2, v, 4) : v \in Byte} \cup {Word(1, 2, 3, v) : v \in Byte}

\* the object representation of a float argument is that of the uint32_t
\* holding its IEEE-754 bits (framing.hpp warns about other hosts); these
\* are the bits of 0, 8, 100, 1020.188, 65535 and -1
Float0 == Word(0, 0, 0, 0)
Float65535 == Word(71, 127, 255, 0)
FloatMinus1 == Word(191, 128, 0, 0)
Float1020 == Word(68, 127, 12, 8)
Floats == {Float0, Word(65, 0, 0, 0), Word(66, 200, 0, 0), Float1020, Float65535, FloatMinus1}

NoCall == [op |-> "none"]

\* no call is in progress on another thread
NoFrames == <<>>

SysCalls == {[op |-> "sys", dest |-> d, sys_type |-> t] : d \in Dests, t \in Byte}

TypeCalls == {[op |-> "type", dest |-> d, type |-> t] : d \in Dests, t \in Byte}

ModesCalls ==
    {[op |-> "modes", dest |-> d, modes |-> m, modes_available |-> v] :
        d \in Dests, m \in Byte, v \in {2, 255}}
    \cup {[op |-> "modes", dest |-> d, modes |-> m, modes_available |-> v] :
        d \in Dests, m \in {5, 255}, v \in Byte}

SpeedCalls == {[op |-> "speed", dest |-> d, speed |-> s] : d \in Dests, s \in Speeds}

SelectCalls == {[op |-> "select", dest |-> d, mode |-> m] : d \in Dests, m \in Byte}

WriteCalls ==
    {[op |-> "write", dest |-> d, data |-> Payload(p, n), len |-> n] :
        d \in Dests, p \in Patterns, n \in Lens}

NameCalls ==
    {[op |-> "name", dest |-> d, mode |-> m, name |-> s] :
        d \in Dests, m \in ModeSamples, s \in Names}
    \cup {[op |-> "name", dest |-> d, mode |-> m, name |-> s] :
        d \in Dests, m \in Byte, s \in {ColCal, nullptr}}

SpanCalls ==
    {[op |-> "span", dest |-> d, mode |-> m, span_type |-> t, lower |-> l, upper |-> u] :
        d \in Dests, m \in ModeSamples, t \in {1, 2, 3}, l \in Floats, u \in Floats}
    \cup {[op |-> "span", dest |-> d, mode |-> m, span_type |-> 1, lower |-> Float0,
           upper |-> Float65535] : d \in Dests, m \in Byte}
    \cup {[op |-> "span", dest |-> d, mode |-> 5, span_type |-> t, lower |-> FloatMinus1,
           upper |-> Float1020] : d \in Dests, t \in Byte}

SymbolCalls ==
    {[op |-> "symbol", dest |-> d, mode |-> m, symbol |-> s] :
        d \in Dests, m \in ModeSamples, s \in Symbols}
    \cup {[op |-> "symbol", dest |-> d, mode |-> m, symbol |-> s] :
        d \in Dests, m \in Byte, s \in {Col, nullptr}}

\* mode, elems, data_type, width, decimals: one argument ranges over every
\* byte while the others are those of the example, or all 0xff
FormatArgs ==
    {[b EXCEPT ![k] = v] : b \in {<<5, 4, 1, 5, 0>>, <<255, 255, 255, 255, 255>>},
                           k \in 1..5, v \in Byte}

FormatCalls ==
    {[op |-> "format", dest |-> d, mode |-> a[1], elems |-> a[2], data_type |-> a[3],
      width |-> a[4], decimals |-> a[5]] : d \in Dests, a \in FormatArgs}

DataCalls ==
    {[op |-> "data", dest |-> d, mode |-> m, data |-> Payload(p, n), len |-> n] :
        d \in Dests, m \in ModeSamples, p \in Patterns, n \in Lens}
    \cup {[op |-> "data", dest |-> d, mode |-> m, data |-> Payload("iota", n), len |-> n] :
        d \in Dests, m \in Byte, n \in {0, 7, 32, 33}}

\* the call c made on memory m by a build of byte order `order`
Apply(order, m, c) ==
    CASE c.op = "sys" -> frame_sys_message(m, c.dest, c.sys_type)
      [] c.op = "type" -> frame_cmd_type_message(m, c.dest, c.type)
      [] c.op = "modes" -> frame_cmd_modes_message(m, c.dest, c.modes, c.modes_available)
      [] c.op = "speed" -> frame_cmd_speed_message(order, m, c.dest, c.speed)
      [] c.op = "select" -> frame_cmd_select_message(m, c.dest, c.mode)
      [] c.op = "write" -> frame_cmd_write_message(m, c.dest, c.data, c.len)
      [] c.op = "name" -> frame_info_message_name(m, c.dest, c.mode, c.name)
      [] c.op = "span" ->
            frame_info_message_span(order, m, c.dest, c.mode, c.span_type, c.lower, c.upper)
      [] c.op = "symbol" -> frame_info_message_symbol(m, c.dest, c.mode, c.symbol)
      [] c.op = "format" ->
            frame_info_message_format(m, c.dest, c.mode, c.elems, c.data_type,
                                      c.width, c.decimals)
      [] c.op = "data" -> frame_data_message(m, c.dest, c.mode, c.data, c.len)

Init ==
    /\ byte_order \in ByteOrders
    /\ mem \in InitialBuffers
    /\ pre = mem
    /\ call = NoCall
    /\ ret = 0
    /\ frames = NoFrames

\* Each action is one call by the caller on its prepared buffer: the framing
\* function runs to completion, the caller keeps what it returned.
SysMessage ==
    /\ call = NoCall
    /\ \E c \in SysCalls :
          LET r == frame_sys_message(mem, c.dest, c.sys_type)
          IN  /\ mem' = r.mem
              /\ ret' = r.ret
              /\ pre' = mem
              /\ call' = c
              /\ UNCHANGED <<byte_order, frames>>

CmdTypeMessage ==
    /\ call = NoCall
    /\ \E c \in TypeCalls :
          LET r == frame_cmd_type_message(mem, c.dest, c.type)
          IN  /\ mem' = r.mem
              /\ ret' = r.ret
              /\ pre' = mem
              /\ call' = c
              /\ UNCHANGED <<byte_order, frames>>

CmdModesMessage ==
    /\ call = NoCall
    /\ \E c \in ModesCalls :
          LET r == frame_cmd_modes_message(mem, c.dest, c.modes, c.modes_available)
          IN  /\ mem' = r.mem
              /\ ret' = r.ret
              /\ pre' = mem
              /\ call' = c
              /\ UNCHANGED <<byte_order, frames>>

CmdSpeedMessage ==
    /\ call = NoCall
    /\ \E c \in SpeedCalls :
          LET r == frame_cmd_speed_message(byte_order, mem, c.dest, c.speed)
          IN  /\ mem' = r.mem
              /\ ret' = r.ret
              /\ pre' = mem
              /\ call' = c
              /\ UNCHANGED <<byte_order, frames>>

CmdSelectMessage ==
    /\ call = NoCall
    /\ \E c \in SelectCalls :
          LET r == frame_cmd_select_message(mem, c.dest, c.mode)
          IN  /\ mem' = r.mem
              /\ ret' = r.ret
              /\ pre' = mem
              /\ call' = c
              /\ UNCHANGED <<byte_order, frames>>

CmdWriteMessage ==
    /\ call = NoCall
    /\ \E c \in WriteCalls :
          LET r == frame_cmd_write_message(mem, c.dest, c.data, c.len)
          IN  /\ mem' = r.mem
              /\ ret' = r.ret
              /\ pre' = mem
              /\ call' = c
              /\ UNCHANGED <<byte_order, frames>>

InfoMessageName ==
    /\ call = NoCall
    /\ \E c \in NameCalls :
          LET r == frame_info_message_name(mem, c.dest, c.mode, c.name)
          IN  /\ mem' = r.mem
              /\ ret' = r.ret
              /\ pre' = mem
              /\ call' = c
              /\ UNCHANGED <<byte_order, frames>>

InfoMessageSpan ==
    /\ call = NoCall
    /\ \E c \in SpanCalls :
          LET r == frame_info_message_span(byte_order, mem, c.dest, c.mode,
                                                 c.span_type, c.lower, c.upper)
          IN  /\ mem' = r.mem
              /\ ret' = r.ret
              /\ pre' = mem
              /\ call' = c
              /\ UNCHANGED <<byte_order, frames>>

InfoMessageSymbol ==
    /\ call = NoCall
    /\ \E c \in SymbolCalls :
          LET r == frame_info_message_symbol(mem, c.dest, c.mode, c.symbol)
          IN  /\ mem' = r.mem
              /\ ret' = r.ret
              /\ pre' = mem
              /\ call' = c
              /\ UNCHANGED <<byte_order, frames>>

InfoMessageFormat ==
    /\ call = NoCall
    /\ \E c \in FormatCalls :
          LET r == frame_info_message_format(mem, c.dest, c.mode, c.elems,
                                                   c.data_type, c.width, c.decimals)
          IN  /\ mem' = r.mem
              /\ ret' = r.ret
              /\ pre' = mem
              /\ call' = c
              /\ UNCHANGED <<byte_order, frames>>

DataMessage ==
    /\ call = NoCall
    /\ \E c \in DataCalls :
          LET r == frame_data_message(mem, c.dest, c.mode, c.data, c.len)
          IN  /\ mem' = r.mem
              /\ ret' = r.ret
              /\ pre' = mem
              /\ call' = c
              /\ UNCHANGED <<byte_order, frames>>

\* the caller has consumed the message and prepares a buffer for the next call
NewBuffer ==
    /\ call /= NoCall
    /\ mem' \in InitialBuffers
    /\ pre' = mem'
    /\ call' = NoCall
    /\ ret' = 0
    /\ UNCHANGED <<byte_order, frames>>

Next ==
    \/ SysMessage
    \/ CmdTypeMessage
    \/ CmdModesMessage
    \/ CmdSpeedMessage
    \/ CmdSelectMessage
    \/ CmdWriteMessage
    \/ InfoMessageName
    \/ InfoMessageSpan
    \/ InfoMessageSymbol
    \/ InfoMessageFormat
    \/ DataMessage
    \/ NewBuffer

Spec == Init /\ [][Next]_vars

(***************************************************************************)
(* Messages encoded back to back into one buffer, as main of               *)
(* examples/ColorSensorInitialization.cpp does: every call is made at      *)
(* buffer + sz_tally and sz_tally is advanced by the value returned.       *)
(* frames holds the caller's sz_tally and the calls made so far with the   *)
(* values they returned.                                                   *)
(***************************************************************************)
\* at most MaxCalls messages are encoded into one buffer
MaxCalls == 3

\* the buffer has room for MaxCalls messages of the largest size
SeqMemSize == MaxCalls * BUFFER_MIN + Guard

SeqAddr == 0..(SeqMemSize - 1)

\* calls of the example (type, speed, name, span, format, symbol and
\* the closing ACK), a write and a data message of the largest accepted
\* payloads, and calls that are rejected
SeqCalls(d) ==
    {[op |-> "type", dest |-> d, type |-> 29],
     [op |-> "speed", dest |-> d, speed |-> Word(0, 0, 225, 0)],
     [op |-> "name", dest |-> d, mode |-> 5, name |-> ColCal],
     [op |-> "span", dest |-> d, mode |-> 5, span_type |-> 1, lower |-> Float0,
      upper |-> Float65535],
     [op |-> "format", dest |-> d, mode |-> 5, elems |-> 4, data_type |-> 1,
      width |-> 5, decimals |-> 0],
     [op |-> "symbol", dest |-> d, mode |-> 2, symbol |-> Col],
     [op |-> "sys", dest |-> d, sys_type |-> 4],
     [op |-> "write", dest |-> d, data |-> Payload("iota", 3), len |-> 3],
     [op |-> "data", dest |-> d, mode |-> 7, data |-> Payload("ff", 32), len |-> 32],
     [op |-> "write", dest |-> d, data |-> Payload("iota", 25), len |-> 25],
     [op |-> "data", dest |-> d, mode |-> 7, data |-> Payload("ff", 33), len |-> 33]}

\* a faulty variant of next_dest: the next message starts on the last byte
\* of the one before
next_dest_OneShort(sz_tally, r) == IF r > 0 THEN sz_tally + r - 1 ELSE sz_tally

\* sz_tally += frame_...(buffer + sz_tally, ...) for a positive return value;
\* every call of the example succeeds, and a caller that tests the value
\* returned keeps sz_tally when a call is rejected
next_dest(sz_tally, r) == IF r > 0 THEN sz_tally + r ELSE sz_tally

\* uint8_t buffer[...]; memset(buffer, 0, ...); uint32_t sz_tally = 0; a
\* buffer of 0xff is tried as well
SeqInit ==
    /\ byte_order \in ByteOrders
    /\ mem \in {[a \in SeqAddr |-> f] : f \in Fills}
    /\ pre = mem
    /\ call = NoCall
    /\ ret = 0
    /\ frames = [sz_tally |-> 0, calls |-> <<>>, rets |-> <<>>]

EncodeNext ==
    /\ Len(frames.calls) < MaxCalls
    /\ \E c \in SeqCalls(frames.sz_tally) :
          LET r == Apply(byte_order, mem, c)
          IN  /\ mem' = r.mem
              /\ ret' = r.ret
              /\ pre' = mem
              /\ call' = c
              /\ frames' = [sz_tally |-> next_dest(frames.sz_tally, r.ret),
                            calls |-> Append(frames.calls, c),
                            rets |-> Append(frames.rets, r.ret)]
              /\ UNCHANGED byte_order

SeqNext == EncodeNext

SeqSpec == SeqInit /\ [][SeqNext]_vars

(***************************************************************************)
(* The helpers of framing.hpp called on their own, as the unit tests call  *)
(* them: log2 on a value, insert_padding on a prepared buffer.             *)
(***************************************************************************)
\* lengths 1..MaxPadLen are passed to insert_padding
MaxPadLen == 33

Log2Calls == {[op |-> "log2", val |-> v] : v \in 1..255}

InsertPaddingCalls ==
    {[op |-> "insert_padding", dest |-> d, len |-> n] : d \in Dests, n \in 1..MaxPadLen}

Log2Call ==
    /\ call = NoCall
    /\ \E c \in Log2Calls :
          /\ ret' = log2(c.val)
          /\ mem' = mem
          /\ pre' = mem
          /\ call' = c
          /\ UNCHANGED <<byte_order, frames>>

InsertPaddingCall ==
    /\ call = NoCall
    /\ \E c \in InsertPaddingCalls :
          LET r == insert_padding(mem, c.dest, c.len)
          IN  /\ mem' = r.mem
              /\ ret' = r.ret
              /\ pre' = mem
              /\ call' = c
              /\ UNCHANGED <<byte_order, frames>>

HelperNext ==
    \/ Log2Call
    \/ InsertPaddingCall
    \/ NewBuffer

HelperSpec == Init /\ [][HelperNext]_vars

(***************************************************************************)
(* Concurrent calls.  Two threads each call frame_cmd_write_message or     *)
(* frame_data_message on a buffer of their own; the calls run statement by *)
(* statement and byte by byte (each store of memcpy and insert_padding,    *)
(* each read of checksum is a step), in any interleaving.  Memory is       *)
(* shared; what a call keeps in automatic variables (dest, i, padding,     *)
(* acc) lives in its frame.                                                *)
(***************************************************************************)
\* payload lengths 0..MaxConcLen are tried by the concurrent calls
MaxConcLen == 3

Threads == {1, 2}

\* thread t frames into its own BUFFER_MIN bytes
ConcDest(t) == (t - 1) * BUFFER_MIN

ConcAddr == 0..(Cardinality(Threads) * BUFFER_MIN - 1)

ConcCalls(t) ==
    {[op |-> "write", dest |-> ConcDest(t), data |-> Payload("iota", n), len |-> n] :
        n \in 0..MaxConcLen}
    \cup {[op |-> "data", dest |-> ConcDest(t), mode |-> 9, data |-> Payload("ff", n),
           len |-> n] : n \in 0..MaxConcLen}

\* the accumulator of checksum is an automatic variable: one per call
acc_slot_Static(t) == 1

acc_slot(t) == t

\* the frame of a call that has not started
NewFrame(c) == [pc |-> "test", c |-> c, d |-> c.dest, i |-> 0, padding |-> 0, ret |-> 0]

ConcInit ==
    /\ byte_order \in ByteOrders
    /\ mem \in {[a \in ConcAddr |-> f] : f \in Fills}
    /\ pre = mem
    /\ call = NoCall
    /\ ret = 0
    /\ \E c1 \in ConcCalls(1), c2 \in ConcCalls(2) :
          frames = [thr |-> <<NewFrame(c1), NewFrame(c2)>>, acc |-> <<0, 0>>]

\* if ((len < PAYLOAD_MIN) || (len > ...MAX)) return -1;
StepTest(t) ==
    LET f == frames.thr[t]
        rejected == IF f.c.op = "write" THEN write_len_rejected(f.c.len)
                    ELSE sensor_len_rejected(f.c.len)
    IN  /\ f.pc = "test"
        /\ frames' = [frames EXCEPT !.thr[t] =
                        IF rejected THEN [f EXCEPT !.pc = "done", !.ret = ToInt8(-1)]
                        ELSE [f EXCEPT !.pc = "tag"]]
        /\ UNCHANGED <<byte_order, mem, pre, call, ret>>

\* *(dest++) = tag
StepTag(t) ==
    LET f == frames.thr[t]
        tag == IF f.c.op = "write"
               THEN BitOr(BitOr(CMD_BASE, WRITE), length_code(f.c.len))
               ELSE BitOr(BitOr(DATA_BASE, BitAnd(7, f.c.mode)), length_code(f.c.len))
    IN  /\ f.pc = "tag"
        /\ mem' = Store(mem, f.d, tag)
        /\ frames' = [frames EXCEPT !.thr[t] = [f EXCEPT !.pc = "copy", !.d = f.d + 1, !.i = 0]]
        /\ UNCHANGED <<byte_order, pre, call, ret>>

\* memcpy(dest, data, len), one byte a step; then dest += len and the
\* padding of insert_padding is computed
StepCopy(t) ==
    LET f == frames.thr[t]
    IN  /\ f.pc = "copy"
        /\ IF f.i < f.c.len
           THEN /\ mem' = Store(mem, f.d + f.i, f.c.data[f.i + 1])
                /\ frames' = [frames EXCEPT !.thr[t] = [f EXCEPT !.i = f.i + 1]]
           ELSE /\ mem' = mem
                /\ frames' = [frames EXCEPT !.thr[t] =
                                [f EXCEPT !.pc = "pad", !.d = f.d + f.c.len, !.i = 0,
                                          !.padding = padding_size(f.c.len)]]
        /\ UNCHANGED <<byte_order, pre, call, ret>>

\* the loop of insert_padding, one store a step; then checksum starts with
\* acc = 0xff
StepPad(t) ==
    LET f == frames.thr[t]
    IN  /\ f.pc = "pad"
        /\ IF f.i < f.padding
           THEN /\ mem' = Store(mem, f.d, 0)
                /\ frames' = [frames EXCEPT !.thr[t] =
                                [f EXCEPT !.d = f.d + 1, !.i = ToUint8(f.i + 1)]]
           ELSE /\ mem' = mem
                /\ frames' = [frames EXCEPT !.thr[t] = [f EXCEPT !.pc = "sum", !.i = 0],
                                            !.acc[acc_slot(t)] = 255]
        /\ UNCHANGED <<byte_order, pre, call, ret>>

\* the loop of checksum, one read a step: acc ^= buf[i]
StepSum(t) ==
    LET f == frames.thr[t]
        len == ToUint8(1 + f.c.len + f.padding)
    IN  /\ f.pc = "sum"
        /\ frames' = IF f.i < len
                     THEN [frames EXCEPT !.thr[t] = [f EXCEPT !.i = ToUint8(f.i + 1)],
                                         !.acc[acc_slot(t)] =
                                             BitXor(frames.acc[acc_slot(t)],
                                                    mem[f.c.dest + f.i])]
                     ELSE [frames EXCEPT !.thr[t] = [f EXCEPT !.pc = "store"]]
        /\ UNCHANGED <<byte_order, mem, pre, call, ret>>

\* *dest = checksum(...); return 0x02 + len + padding;
StepStore(t) ==
    LET f == frames.thr[t]
    IN  /\ f.pc = "store"
        /\ mem' = Store(mem, f.d, frames.acc[acc_slot(t)])
        /\ frames' = [frames EXCEPT !.thr[t] =
                        [f EXCEPT !.pc = "done", !.ret = ToInt8(2 + f.c.len + f.padding)]]
        /\ UNCHANGED <<byte_order, pre, call, ret>>

ConcNext ==
    \E t \in Threads :
        \/ StepTest(t)
        \/ StepTag(t)
        \/ StepCopy(t)
        \/ StepPad(t)
        \/ StepSum(t)
        \/ StepStore(t)

ConcSpec == ConcInit /\ [][ConcNext]_vars

(***************************************************************************)
(* Vocabulary of the properties: the message as the caller sees it, and    *)
(* the arithmetic of the protocol stated without the code's bit tricks.    *)
(***************************************************************************)
\* the last call rejected its input
Rejected == call /= NoCall /\ ret = -1

\* the last call succeeded
Succeeded == call /= NoCall /\ ret /= -1

\* the ret bytes from dest on, after the call
Written == [i \in 1..ret |-> mem[call.dest + i - 1]]

\* ceil(log2 n) for n in 1..256
CeilLog2(n) == CHOOSE k \in 0..8 : n <= 2 ^ k /\ (k = 0 \/ 2 ^ (k - 1) < n)

Zeros(n) == [i \in 1..n |-> 0]

\* bit k of byte b
Bit(b, k) == (b \div (2 ^ k)) % 2

\* 0xFF XOR every byte of the sequence s: bit k of the result is set iff an
\* even number of bytes of s have bit k set
XorFF(s) ==
    LET flip(k) == IF Cardinality({i \in DOMAIN s : Bit(s[i], k) = 1}) % 2 = 0
                   THEN 2 ^ k ELSE 0
    IN  flip(0) + flip(1) + flip(2) + flip(3) + flip(4) + flip(5) + flip(6) + flip(7)

\* the characters of a C string, without the terminator
Chars(str) ==
    LET n == CHOOSE n \in 0..(Len(str) - 1) :
                 str[n + 1] = 0 /\ \A i \in 1..n : str[i] /= 0
    IN  SubSeq(str, 1, n)

\* the message a payload frames to after the leading bytes `head`: the
\* payload, zeros up to the next power of two, and the checksum of it all
Framed(head, payload) ==
    LET len == Len(payload)
        body == head \o payload \o Zeros(2 ^ CeilLog2(len) - len)
    IN  body \o <<XorFF(body)>>

(***************************************************************************)
(* C1. When frame_cmd_write_message, frame_data_message,                   *)
(* frame_info_message_name or frame_info_message_symbol rejects its input  *)
(* (returns -1), the destination buffer after the call equals the buffer   *)
(* before the call, whatever the buffer held.                              *)
(***************************************************************************)
C1_RejectWritesNothing ==
    (call.op \in {"write", "data", "name", "symbol"} /\ ret = -1) => mem = pre

\* a WRITE of 25 bytes is rejected on a buffer filled with 0xff
C1_Witness ==
    /\ call.op = "write"
    /\ call.len = 25
    /\ ret = -1
    /\ \A a \in Addr : pre[a] = 255

C3_WriteAndDataLayout ==
    /\ (call.op = "write" /\ call.len \in 1..24) =>
          /\ ret = 2 + 2 ^ CeilLog2(call.len)
          /\ Written = Framed(<<BitOr(BitOr(CMD_BASE, WRITE), 8 * CeilLog2(call.len))>>,
                              call.data)
    /\ (call.op = "data" /\ call.len \in 1..32) =>
          /\ ret = 2 + 2 ^ CeilLog2(call.len)
          /\ Written = Framed(<<BitOr(BitOr(DATA_BASE, call.mode % 8),
                                      8 * CeilLog2(call.len))>>,
                              call.data)

\* a DATA message of 5 bytes 0xff (3 padding bytes) on a buffer filled with 0xff
C3_Witness ==
    /\ call.op = "data"
    /\ call.len = 5
    /\ call.data = <<255, 255, 255, 255, 255>>
    /\ pre[0] = 255
    /\ ret = 10

(***************************************************************************)
(* C4. For every non-null name of length n in 1..32 and every mode,        *)
(* frame_info_message_name writes the tag INFO_BASE|(mode&7)|length code,  *)
(* the byte 0x00, the n name bytes, 2^ceil(log2 n) - n zero bytes and the  *)
(* checksum of all preceding bytes, and returns 3 + 2^ceil(log2 n).        *)
(***************************************************************************)
C4_NameLayout ==
    (/\ call.op = "name"
     /\ call.name /= nullptr
     /\ Len(Chars(call.name)) \in 1..32) =>
        LET n == Len(Chars(call.name))
        IN  /\ ret = 3 + 2 ^ CeilLog2(n)
            /\ Written = Framed(<<BitOr(BitOr(INFO_BASE, call.mode % 8), 8 * CeilLog2(n)), 0>>,
                                Chars(call.name))

\* mode 5, "COL-CAL": 11 bytes, one of them padding
C4_Witness ==
    /\ call.op = "name"
    /\ call.mode = 5
    /\ call.name = ColCal
    /\ ret = 11
    /\ mem[call.dest + 9] = 0
    /\ pre[call.dest + 9] = 255

(***************************************************************************)
(* C5. For every non-null symbol of length n in 1..8 and every mode,       *)
(* frame_info_message_symbol returns 11 and writes the tag                 *)
(* INFO_BASE|(mode&7)|length code of 8, the byte 0x04, the n symbol bytes, *)
(* exactly 8 - n zero bytes and the checksum of the preceding 10 bytes.    *)
(***************************************************************************)
C5_SymbolLayout ==
    (/\ call.op = "symbol"
     /\ call.symbol /= nullptr
     /\ Len(Chars(call.symbol)) \in 1..8) =>
        LET n == Len(Chars(call.symbol))
            body == <<BitOr(BitOr(INFO_BASE, call.mode % 8), 8 * 3), 4>>
                        \o Chars(call.symbol) \o Zeros(8 - n)
        IN  /\ ret = 11
            /\ Len(body) = 10
            /\ Written = body \o <<XorFF(body)>>

\* "col": 5 zero bytes where the power-of-two rule would give 1
C5_Witness ==
    /\ call.op = "symbol"
    /\ call.symbol = Col
    /\ ret = 11
    /\ \A a \in 5..9 : mem[call.dest + a] = 0 /\ pre[call.dest + a] = 255

(***************************************************************************)
(* C6. As claimed: every encoder (system, the five command encoders, the   *)
(* four information encoders and data), on success, appends as the final   *)
(* byte of its message the checksum of all preceding bytes of the message. *)
(* frame_sys_message writes its tag byte and nothing else, so this fails   *)
(* for a system message.                                                   *)
(***************************************************************************)
C6_EveryEncoderAppendsChecksum ==
    Succeeded => Written[ret] = XorFF(SubSeq(Written, 1, ret - 1))

(***************************************************************************)
(* C6, amended. Every encoder other than frame_sys_message (the five       *)
(* command encoders, the four information encoders and data), on success,  *)
(* appends as the final byte of its message the checksum of all preceding  *)
(* bytes of the message.                                                   *)
(***************************************************************************)
C6_ChecksumIsFinalByteExceptSys ==
    (Succeeded /\ call.op /= "sys") =>
        /\ ret >= 2
        /\ Written[ret] = XorFF(SubSeq(Written, 1, ret - 1))

\* the TYPE message of type 0x1d: 0x40, 0x1d and the checksum 0xa2
C6_Witness ==
    /\ call.op = "type"
    /\ call.type = 29
    /\ ret = 3
    /\ mem[call.dest] = 64
    /\ mem[call.dest + 2] = 162

(***************************************************************************)
(* C7. As claimed: -1 can be returned only by write-data, info-name and    *)
(* info-symbol; every other encoder (system, type, modes, speed, select,   *)
(* span, format and data) never returns -1.  frame_data_message returns    *)
(* -1 for a length outside 1..32, so this fails.                           *)
(***************************************************************************)
C7_OnlyThreeEncodersReject == Rejected => call.op \in {"write", "name", "symbol"}

(***************************************************************************)
(* C7, amended. -1 can be returned only by the four encoders write-data,   *)
(* info-name, info-symbol and data; every other encoder (system, type,     *)
(* modes, speed, select, span and format) never returns -1.                *)
(***************************************************************************)
C7_OnlyFourEncodersReject ==
    Rejected => call.op \in {"write", "name", "symbol", "data"}

\* a call of one of the other encoders with an argument outside the range
\* its documentation names: SELECT with mode 255 succeeds
C7_Witness == call.op = "select" /\ call.mode = 255 /\ ret = 3

(***************************************************************************)
(* C8. A successful call returns N with 1 <= N <= 35 (BUFFER_MIN) and      *)
(* changes no byte of the caller's memory outside dest+0 .. dest+N-1.      *)
(***************************************************************************)
C8_WritesOnlyTheMessage ==
    Succeeded =>
        /\ ret \in 1..35
        /\ \A a \in Addr : (a < call.dest \/ a >= call.dest + ret) => mem[a] = pre[a]

\* the longest message: a name of 32 characters gives 35 bytes, and the
\* bytes behind them still hold the fill
C8_Witness ==
    /\ call.op = "name"
    /\ call.name /= nullptr
    /\ Len(call.name) = 33
    /\ ret = 35
    /\ \A a \in Addr : pre[a] = 255
    /\ mem[call.dest + 35] = 255

(***************************************************************************)
(* C9. The fixed-size encoders succeed for every argument value and return *)
(* a constant: sys 1, type 3, modes 4, speed 6, select 3, span 11,         *)
(* format 7.                                                               *)
(***************************************************************************)
C9_FixedSizes ==
    /\ call.op = "sys" => ret = 1
    /\ call.op = "type" => ret = 3
    /\ call.op = "modes" => ret = 4
    /\ call.op = "speed" => ret = 6
    /\ call.op = "select" => ret = 3
    /\ call.op = "span" => ret = 11
    /\ call.op = "format" => ret = 7

\* a FORMAT message with every argument 0xff
C9_Witness ==
    /\ call.op = "format"
    /\ call.mode = 255 /\ call.elems = 255 /\ call.data_type = 255
    /\ call.width = 255 /\ call.decimals = 255
    /\ ret = 7

(***************************************************************************)
(* C10. A mode outside 0..7 is masked, never rejected: select, name, span, *)
(* symbol, format and data return the same value and leave the same bytes  *)
(* for mode m as for mode m & 7, all other arguments and the buffer being  *)
(* the same.                                                               *)
(***************************************************************************)
C10_ModeIsMasked ==
    call.op \in {"select", "name", "span", "symbol", "format", "data"} =>
        LET masked == Apply(byte_order, pre, [call EXCEPT !.mode = call.mode % 8])
        IN  /\ ret = masked.ret
            /\ mem = masked.mem

\* mode 9 is selected as mode 1
C10_Witness ==
    /\ call.op = "select"
    /\ call.mode = 9
    /\ ret = 3
    /\ mem[call.dest + 1] = 1

(***************************************************************************)
(* C11. For every speed, frame_cmd_speed_message writes 6 bytes: the tag   *)
(* CMD_BASE|SPEED|length code of 4, the speed in little-endian order       *)
(* (speed & 0xFF first, (speed >> 24) & 0xFF last) and the checksum of the *)
(* 5 bytes before it, whatever the byte order of the host.                 *)
(***************************************************************************)
C11_SpeedLittleEndian ==
    call.op = "speed" =>
        LET body == <<BitOr(BitOr(CMD_BASE, SPEED), 8 * 2),
                      call.speed.lo % 256, call.speed.lo \div 256,
                      call.speed.hi % 256, call.speed.hi \div 256>>
        IN  /\ ret = 6
            /\ Written = body \o <<XorFF(body)>>

\* 57600 = 0x0000e100 framed by a big-endian build
C11_Witness ==
    /\ call.op = "speed"
    /\ byte_order = "big"
    /\ call.speed = Word(0, 0, 225, 0)
    /\ ret = 6
    /\ mem[call.dest + 1] = 0
    /\ mem[call.dest + 2] = 225
    /\ mem[call.dest + 3] = 0
    /\ mem[call.dest + 4] = 0

(***************************************************************************)
(* C12. frame_info_message_format writes exactly 7 bytes: the tag          *)
(* INFO_BASE|(mode&7)|length code of 4, 0x80, elems & 0x3F,                *)
(* data_type & 0x03, width & 0x0F, decimals & 0x0F and the checksum of the *)
(* 6 bytes before it.                                                      *)
(***************************************************************************)
C12_FormatLayout ==
    call.op = "format" =>
        LET body == <<BitOr(BitOr(INFO_BASE, call.mode % 8), 8 * 2), 128,
                      call.elems % 64, call.data_type % 4,
                      call.width % 16, call.decimals % 16>>
        IN  /\ ret = 7
            /\ Written = body \o <<XorFF(body)>>

\* every field above its width: elems 0xff is stored as 0x3f
C12_Witness ==
    /\ call.op = "format"
    /\ call.elems = 255
    /\ call.width = 255
    /\ ret = 7
    /\ mem[call.dest + 2] = 63
    /\ mem[call.dest + 4] = 15

(***************************************************************************)
(* C13. frame_cmd_modes_message writes exactly 4 bytes: the tag            *)
(* CMD_BASE|MODES|length code of 2, modes & 0x07, modes_visible & 0x07 and *)
(* the checksum of the 3 bytes before it.                                  *)
(***************************************************************************)
C13_ModesLayout ==
    call.op = "modes" =>
        LET body == <<BitOr(BitOr(CMD_BASE, MODES), 8 * 1),
                      call.modes % 8, call.modes_available % 8>>
        IN  /\ ret = 4
            /\ Written = body \o <<XorFF(body)>>

\* modes 5, modes_visible 0xfa: only the low 3 bits (2) reach the wire
C13_Witness ==
    /\ call.op = "modes"
    /\ call.modes = 5
    /\ call.modes_available = 250
    /\ ret = 4
    /\ mem[call.dest + 1] = 5
    /\ mem[call.dest + 2] = 2

(***************************************************************************)
(* C14. Encoding does not depend on what the buffer held: the same call    *)
(* (same encoder, same arguments) made on any other buffer the caller may  *)
(* have prepared returns the same value and writes the same bytes.         *)
(***************************************************************************)
C14_IndependentOfPriorContents ==
    call /= NoCall =>
        \A other \in InitialBuffers :
            LET again == Apply(byte_order, other, call)
            IN  /\ again.ret = ret
                /\ \A i \in 0..(ret - 1) :
                       again.mem[call.dest + i] = mem[call.dest + i]

\* a DATA message with padding, framed on a buffer of 0xff; the same call on
\* a buffer of 0x00 is part of the comparison
C14_Witness ==
    /\ call.op = "data"
    /\ call.len = 3
    /\ call.mode = 9
    /\ ret = 6
    /\ pre[call.dest + 4] = 255
    /\ mem[call.dest + 4] = 0

(***************************************************************************)
(* C15. When two calls run concurrently on separate buffers, under every   *)
(* interleaving of their byte writes and checksum reads each call returns  *)
(* the value, and leaves its buffer with the contents, it gives when run   *)
(* alone.                                                                  *)
(***************************************************************************)
C15_ConcurrentAsAlone ==
    \A t \in Threads :
        frames.thr[t].pc = "done" =>
            LET f == frames.thr[t]
                alone == Apply(byte_order, pre, f.c)
            IN  /\ f.ret = alone.ret
                /\ \A a \in ConcDest(t)..(ConcDest(t) + BUFFER_MIN - 1) :
                       mem[a] = alone.mem[a]

\* thread 1 has returned its 6 bytes while thread 2 is in the middle of the
\* checksum loop of a message of its own
C15_Witness ==
    /\ frames.thr[1].pc = "done"
    /\ frames.thr[1].c.len = 3
    /\ frames.thr[1].ret = 6
    /\ frames.thr[2].pc = "sum"
    /\ frames.thr[2].c.len = 3
    /\ frames.thr[2].i = 2
    /\ pre[0] = 255

(***************************************************************************)
(* C16. For every v in 1..255, log2(v) is ceil(log2 v): it is k for every  *)
(* v in (2^(k-1), 2^k], that is 1->0, 2->1, 3..4->2, 5..8->3, 9..16->4,    *)
(* 17..32->5, 33..64->6, 65..128->7, 129..255->8.                          *)
(***************************************************************************)
C16_Log2IsCeiling ==
    call.op = "log2" =>
        LET v == call.val
        IN  /\ ret = CeilLog2(v)
            /\ ret = (IF v <= 1 THEN 0 ELSE IF v <= 2 THEN 1 ELSE IF v <= 4 THEN 2
                      ELSE IF v <= 8 THEN 3 ELSE IF v <= 16 THEN 4 ELSE IF v <= 32 THEN 5
                      ELSE IF v <= 64 THEN 6 ELSE IF v <= 128 THEN 7 ELSE 8)

\* 129 is the first value of the last class
C16_Witness == call.op = "log2" /\ call.val = 129 /\ ret = 8

\* n is a power of two
IsPowerOfTwo(n) == \E k \in 0..8 : n = 2 ^ k

(***************************************************************************)
(* C17. For every length in 1..32 the padding (1 << log2(length)) - length *)
(* is non-negative, padding + length is a power of two, the padding is 0   *)
(* exactly when length is a power of two, and padding < length unless      *)
(* length is 1.                                                            *)
(***************************************************************************)
C17_PaddingArithmetic ==
    (call.op = "insert_padding" /\ call.len \in 1..32) =>
        /\ ret >= 0
        /\ IsPowerOfTwo(ret + call.len)
        /\ (ret = 0) <=> IsPowerOfTwo(call.len)
        /\ call.len /= 1 => ret < call.len

\* 17 bytes are padded by 15, the largest padding of the range
C17_Witness == call.op = "insert_padding" /\ call.len = 17 /\ ret = 15

(***************************************************************************)
(* C18. For every len in 1..32, insert_padding(dest, len) returns          *)
(* P = 2^ceil(log2 len) - len, sets dest[0..P-1] to 0x00 and leaves        *)
(* dest[P] and every later byte (and every byte before dest) unchanged.    *)
(***************************************************************************)
C18_InsertPaddingEffect ==
    (call.op = "insert_padding" /\ call.len \in 1..32) =>
        /\ ret = 2 ^ CeilLog2(call.len) - call.len
        /\ \A a \in Addr :
              mem[a] = IF a >= call.dest /\ a < call.dest + ret THEN 0 ELSE pre[a]

\* 5 bytes on a buffer of 0xff: 3 zeros, and the byte behind them is still 0xff
C18_Witness ==
    /\ call.op = "insert_padding"
    /\ call.len = 5
    /\ ret = 3
    /\ \A a \in Addr : pre[a] = 255
    /\ mem[call.dest + 2] = 0
    /\ mem[call.dest + 3] = 255

\* the enumerators of Magics::SYS: SYS_BASE and SYNC, NACK, ACK, ESC
SysEnumerators == {0, 2, 4, 6}

\* the base of the kind of the last call's message
KindBase ==
    CASE call.op = "sys" -> SYS_BASE
      [] call.op \in {"type", "modes", "speed", "select", "write"} -> CMD_BASE
      [] call.op \in {"name", "span", "symbol", "format"} -> INFO_BASE
      [] call.op = "data" -> DATA_BASE

\* what bits 2..0 of the tag are to hold: the signal, the command sub-type,
\* or the mode
SubField ==
    CASE call.op = "sys" -> call.sys_type
      [] call.op = "type" -> TYPE
      [] call.op = "modes" -> MODES
      [] call.op = "speed" -> SPEED
      [] call.op = "select" -> SELECT
      [] call.op = "write" -> WRITE
      [] OTHER -> call.mode % 8

\* the tag of the last message is bits 7..6 base, bits 5..3 length code L <= 5,
\* bits 2..0 sub-type or mode, and the returned length follows from the tag
TagIsSelfDescribing ==
    LET tag == mem[call.dest]
        base == (tag \div 64) * 64
        L == (tag \div 8) % 8
        sub == tag % 8
    IN  /\ base = KindBase
        /\ L <= 5
        /\ sub = SubField
        /\ ret = (CASE base = SYS_BASE -> 1
                    [] base = CMD_BASE -> 2 + 2 ^ L
                    [] base = INFO_BASE -> 3 + 2 ^ L
                    [] base = DATA_BASE -> 2 + 2 ^ L)

XorAll(s) ==
    LET odd(k) == IF Cardinality({i \in DOMAIN s : Bit(s[i], k) = 1}) % 2 = 1
                  THEN 2 ^ k ELSE 0
    IN  odd(0) + odd(1) + odd(2) + odd(3) + odd(4) + odd(5) + odd(6) + odd(7)

(***************************************************************************)
(* C20. For every message successfully written by an encoder other than    *)
(* frame_sys_message, the XOR of all N written bytes, tag through checksum *)
(* inclusive, equals 0xFF.                                                 *)
(***************************************************************************)
C20_WholeFrameXorsToFF ==
    (Succeeded /\ call.op /= "sys") => XorAll(Written) = 255

\* the symbol message "col" of the example: 11 bytes that fold to 0xff
C20_Witness ==
    /\ call.op = "symbol"
    /\ call.symbol = Col
    /\ call.mode = 0
    /\ ret = 11
    /\ XorAll(Written) = 255
    /\ Written[11] /= 255

\* the frame of call c encoded on its own at the start of a zeroed buffer:
\* the bytes it returns, none when it is rejected
FrameAlone(c) ==
    LET r == Apply(byte_order, [a \in SeqAddr |-> 0], [c EXCEPT !.dest = 0])
    IN  IF r.ret > 0 THEN [i \in 1..r.ret |-> r.mem[i - 1]] ELSE <<>>

\* the frames of the calls cs, each encoded on its own, one after the other
RECURSIVE FramesAlone(_)
FramesAlone(cs) == IF cs = <<>> THEN <<>> ELSE FrameAlone(Head(cs)) \o FramesAlone(Tail(cs))

\* the sum of the positive return values among rs
RECURSIVE SumOfReturns(_)
SumOfReturns(rs) ==
    IF rs = <<>> THEN 0
    ELSE (IF Head(rs) > 0 THEN Head(rs) ELSE 0) + SumOfReturns(Tail(rs))

(***************************************************************************)
(* C21. When messages are encoded back to back into one buffer, each at    *)
(* the previous destination plus the previous positive return value, no    *)
(* call modifies a byte written by an earlier call, the buffer prefix      *)
(* equals the concatenation of the individual frames, its length is the    *)
(* sum of the return values, and a rejected call, after which the offset   *)
(* is not advanced, leaves the already-written prefix unchanged.           *)
(***************************************************************************)
C21_BackToBackIsConcatenation ==
    frames.calls /= <<>> =>
        /\ \A a \in SeqAddr : a < call.dest => mem[a] = pre[a]
        /\ [i \in 1..frames.sz_tally |-> mem[i - 1]] = FramesAlone(frames.calls)
        /\ frames.sz_tally = SumOfReturns(frames.rets)
        /\ ret = -1 =>
              /\ frames.sz_tally = call.dest
              /\ \A a \in SeqAddr : a < frames.sz_tally => mem[a] = pre[a]

\* a TYPE message, then a rejected write of 25 bytes, then a data message of
\* 32 bytes at offset 3 of a buffer of 0xff: 37 bytes in all
C21_Witness ==
    /\ Len(frames.calls) = 3
    /\ frames.calls[1].op = "type"
    /\ frames.calls[2].op = "write"
    /\ frames.rets = <<3, -1, 34>>
    /\ call.op = "data"
    /\ call.dest = 3
    /\ frames.sz_tally = 37
    /\ pre[40] = 255
    /\ mem[0] = 64
    /\ mem[3] = 239

\* the payload of the last call extended by zeros to 2^ceil(log2 len) bytes
ZeroExtended == call.data \o Zeros(2 ^ CeilLog2(call.len) - call.len)

\* the last call made again on the same buffer with the first m bytes of the
\* zero-extended payload as its payload
SameCallWithLen(m) ==
    Apply(byte_order, pre, [call EXCEPT !.data = SubSeq(ZeroExtended, 1, m), !.len = m])

=============================================================================
